---- MODULE Spec2Model ----
(***************************************************************************)
(* The stock ledger of the inventory application: DatabaseService          *)
(* (lib/database.ts, the first unit of src/unnamed/part_000) and the       *)
(* InventoryService facade over it (src/lib/inventory.ts).                  *)
(*                                                                         *)
(* Each public call is an async task.  A task yields at every awaited      *)
(* storage statement, so one action is one storage statement together      *)
(* with the synchronous code that follows it up to the next statement.     *)
(* A storage statement either executes or raises one of FaultMsgs.         *)
(***************************************************************************)
EXTENDS Integers, Sequences, FiniteSets, TLC

\* ---------------------------------------------------------------- bounds
NProcs    == 2   \* tasks that may be in flight at the same time
MaxCalls  == 2   \* public calls started in one behaviour
MaxFaults == 3   \* storage statements that raise an error, one call at a time
ConcFaults == 1  \* storage statements that raise an error, calls in flight together
MaxRuns   == 3   \* performInitialization runs started in one behaviour
MaxQty    == 2   \* largest quantity argument of a call
SecsPerDay == 2  \* seconds in a day of the clock
MaxTime   == 5   \* last instant of the clock

\* ------------------------------------------------------ program constants
MAX_RETRIES == 3

\* new Date("1970-01-01").getTime()
Epoch == 0

Procs == 1..NProcs

\* An optional value (undefined / null / NULL column) is a sequence of
\* length 0, a present value x is <<x>>.
None == <<>>
Some(x) == <<x>>

\* The errors a storage statement may raise: one that executeWithRetry
\* takes for transient, and "disk I/O error" for any other failure.
FaultMsgs == {"has been rejected", "disk I/O error"}

\* Arguments the callers pass.
Names     == {"Widget"}
CostPrices == {1}
SellPrices == {3}
QtyArgs   == (0 - 1)..MaxQty
MinArgs   == {1}
PriceArgs == {None, Some(0), Some(2)}

VARIABLES
  items,                  \* inventory_items rows: id -> row
  itemSeq,                \* AUTOINCREMENT counter of inventory_items
  txs,                    \* stock_transactions rows in insertion order
  txSeq,                  \* AUTOINCREMENT counter of stock_transactions
  itemsTable,             \* inventory_items exists
  txTable,                \* stock_transactions exists
  isInitialized,          \* DatabaseService.isInitialized
  initializationPromise,  \* DatabaseService.initializationPromise: 0 = null, else a run
  runs,                   \* performInitialization runs (promises), by number
  proc,                   \* the tasks: position, arguments and locals of each
  last,                   \* the call the last step ended, if it ended one, and how
  faults,                 \* storage errors still to be raised
  ncalls,                 \* public calls started so far
  timers,                 \* setTimeout callbacks scheduled and not yet finished
  txLegacy,               \* stock_transactions exists with a definition that lacks 'sold'
  now                     \* the clock, in seconds since 1970-01-01 00:00:00 UTC

vars == <<items, itemSeq, txs, txSeq, itemsTable, txTable, isInitialized,
          initializationPromise, runs, proc, last, faults, ncalls, timers,
          txLegacy, now>>

db      == <<items, itemSeq, txs, txSeq, itemsTable, txTable, txLegacy>>
initVar == <<isInitialized, initializationPromise, runs>>

\* ------------------------------------------------------------- helpers

\* error?.message?.includes('NullPointerException') || includes('has been rejected')
IsTransient(msg) == msg \in {"NullPointerException", "has been rejected"}

\* The catch block of executeWithRetry, `retries` already incremented.
ShouldRetryOffByOne(retries, msg) == IsTransient(msg) /\ retries <= MAX_RETRIES
ShouldRetry(retries, msg) == IsTransient(msg) /\ retries < MAX_RETRIES

\* Outcomes of one storage statement: it executes, or it raises a fault.
Outcomes == {"ok"} \cup (IF faults > 0 THEN FaultMsgs ELSE {})

Fault(f) == faults' = faults - (IF f = "ok" THEN 0 ELSE 1)

Abs(x) == IF x < 0 THEN 0 - x ELSE x

\* SELECT * FROM inventory_items WHERE id = ?  (null when there is no row)
RowByIdOrFirst(id) ==
  IF id \in DOMAIN items THEN Some(items[id])
  ELSE IF items # <<>> THEN Some(items[CHOOSE i \in DOMAIN items : TRUE])
  ELSE None
RowById(id) == IF id \in DOMAIN items THEN Some(items[id]) ELSE None

\* Timestamps are strings, compared byte by byte.  A string is modelled by
\* the sequence of its parts: the date, the separator character, the time
\* of day and, in an ISO string, the milliseconds.
CharCode == [space |-> 32, T |-> 84]

\* CURRENT_TIMESTAMP at instant t: 'YYYY-MM-DD HH:MM:SS', in UTC.
SqlTimestamp(t) == <<t \div SecsPerDay, CharCode.space, t % SecsPerDay>>

\* new Date(t * 1000).toISOString(): 'YYYY-MM-DDTHH:MM:SS.000Z'.
ToISOString(t) == <<t \div SecsPerDay, CharCode.T, t % SecsPerDay, 0>>

\* a <= b in the BINARY collation (memcmp, the shorter of equal prefixes first).
RECURSIVE LexLeq(_, _)
LexLeq(a, b) ==
  IF a = <<>> THEN TRUE
  ELSE IF b = <<>> THEN FALSE
  ELSE IF Head(a) # Head(b) THEN Head(a) < Head(b)
  ELSE LexLeq(Tail(a), Tail(b))

\* x BETWEEN lo AND hi
Between(x, lo, hi) == LexLeq(lo, x) /\ LexLeq(x, hi)

IdleProc ==
  [pc |-> "idle", op |-> "none", id |-> 0, n |-> 0, price |-> None,
   name |-> "", cost |-> 0, sell |-> 0, min |-> 0, awaiting |-> 0, ret |-> "none",
   cur |-> None, dbi |-> None, rIs |-> 0, rOut |-> 0, rIn |-> 0,
   err |-> "none", low |-> FALSE, sale |-> FALSE, nup |-> 0, ntx |-> 0,
   lost |-> {}, att |-> 0, from |-> 0, to |-> 0, val |-> <<>>]

\* The locals of task p as a statement finds them; err is the error the
\* catch block of the task's last step caught, if that step ended in one.
Locals(p) == [proc[p] EXCEPT !.err = "none"]

\* What a public call hands over in the step that ends it: its task, its
\* result ("ok", or the message of what it throws) and its locals, among
\* them the notifications it scheduled (low, sale) and the numbers of
\* inventory_items writes (nup) and stock_transactions inserts (ntx) it made,
\* the items whose transactions its DROP TABLE removed (lost) and the number
\* of times it ran the read of the nested getInventoryItemById (att).  A
\* query has the bounds of its range (from, to) and collects what its
\* statements return (val).
Ended(p, rec, result) == [by |-> p, res |-> result, call |-> rec, note |-> "none"]

NoCall == [by |-> 0, res |-> "none", call |-> IdleProc, note |-> "none"]

\* setTimeout(async () => {...}, 100): a callback, not yet run.
NewTimer(kind) ==
  [kind |-> kind, pc |-> "due", awaiting |-> 0, ret |-> "none", retries |-> 0]

\* The callbacks a returning call has scheduled: triggerSalesNotification
\* before triggerLowStockNotification.
Scheduled(rec) ==
  (IF rec.sale THEN <<NewTimer("sale")>> ELSE <<>>)
    \o (IF rec.low THEN <<NewTimer("low")>> ELSE <<>>)

\* A run of performInitialization.  When it finds a stock_transactions
\* table without 'sold', rows is its existingTransactions, k the index of the
\* one its loop is at, and before the rows the table held when it looked.
NewRun ==
  [pc |-> "waitForDatabase", retries |-> 0, st |-> "pending", err |-> "none",
   rows |-> <<>>, k |-> 0, before |-> {}]

\* The database file outlives the process.  The app starts on a device
\* where it never ran, or on the file an earlier run left: here the one a
\* run leaves that added Widget with InitialStock units and then exited.
\* Its min_stock_level is 0, so that a sale of one unit stays above the
\* low-stock level and a sale of the last unit reaches it.
InitialStock == 2

StockedItems ==
  1 :> [name |-> "Widget", cost_price |-> 1, selling_price |-> 3,
        quantity |-> InitialStock, min_stock_level |-> 0, total_sold |-> 0,
        created_at |-> SqlTimestamp(SecsPerDay)]

StockedTxs ==
  << [id |-> 1, item_id |-> 1, type |-> "in", quantity |-> InitialStock,
      unit_price |-> None, total_amount |-> None, notes |-> "Initial stock",
      created_at |-> SqlTimestamp(SecsPerDay)] >>

Boot ==
  /\ \/ /\ items = <<>>
        /\ itemSeq = 0
        /\ txs = <<>>
        /\ txSeq = 0
        /\ itemsTable = FALSE
        /\ txTable = FALSE
     \/ /\ items = StockedItems
        /\ itemSeq = 1
        /\ txs = StockedTxs
        /\ txSeq = 1
        /\ itemsTable = TRUE
        /\ txTable = TRUE
  /\ isInitialized = FALSE
  /\ initializationPromise = 0
  /\ runs = <<>>
  /\ proc = [p \in Procs |-> IdleProc]
  /\ last = NoCall
  /\ ncalls = 0
  /\ timers = <<>>
  /\ txLegacy = FALSE
  /\ now = SecsPerDay

Init == Boot /\ faults = ConcFaults

InitSeq == Boot /\ faults = MaxFaults

\* ------------------------------------------------- control transfer

\* ensureInitialized: already initialized, join the run in flight, or start one.
EnsureChoice(inited, promise) ==
  IF inited THEN "ready" ELSE IF promise # 0 THEN "join" ELSE "start"

\* Task p, with locals rec, continues at target ("ret_ok": the public call
\* returns).
Land(p, rec, target) ==
  IF target = "ret_ok"
  THEN /\ proc' = [proc EXCEPT ![p] = IdleProc]
       /\ last' = Ended(p, rec, "ok")
       /\ timers' = timers \o Scheduled(rec)
  ELSE /\ proc' = [proc EXCEPT ![p] = [rec EXCEPT !.pc = target]]
       /\ last' = NoCall
       /\ timers' = timers

Goto(p, rec, target) ==
  /\ Land(p, rec, target)
  /\ UNCHANGED <<runs, initializationPromise>>

\* The public call throws msg to its caller.
Throw(p, rec, msg) ==
  /\ proc' = [proc EXCEPT ![p] = IdleProc]
  /\ last' = Ended(p, rec, msg)
  /\ UNCHANGED <<runs, initializationPromise, timers>>

\* Task p waits for run r before it continues at target.
Await(p, rec, target, r) ==
  /\ proc' = [proc EXCEPT ![p] =
                [rec EXCEPT !.pc = "await_init", !.ret = target, !.awaiting = r]]
  /\ last' = NoCall
  /\ timers' = timers

\* `await this.ensureInitialized()` with the guard's fields as given, then
\* continue at target.
EnterWith(p, rec, target, inited, promise) ==
  LET c == EnsureChoice(inited, promise) IN
  CASE c = "ready" ->
         /\ Land(p, rec, target)
         /\ runs' = runs
         /\ initializationPromise' = promise
    [] c = "join" ->
         /\ Await(p, rec, target, promise)
         /\ runs' = runs
         /\ initializationPromise' = promise
    [] c = "start" ->
         /\ Len(runs) < MaxRuns
         /\ runs' = Append(runs, NewRun)
         /\ initializationPromise' = Len(runs) + 1
         /\ Await(p, rec, target, Len(runs) + 1)

Enter(p, rec, target) ==
  EnterWith(p, rec, target, isInitialized, initializationPromise)

\* The retry of the operation of a public DatabaseService method, after
\* the delay: addInventoryItem, deleteInventoryItem and dropAllTables start
\* with a statement, updateInventoryStock and recordSale with the nested
\* getInventoryItemById.
Restart(p, rec) ==
  Goto(p, [rec EXCEPT !.rIn = 0, !.dbi = None, !.awaiting = 0, !.ret = "none",
                       !.val = <<>>],
       CASE rec.op = "addItem" -> "add_item"
         [] rec.op = "resetDatabase" -> "drop_tx"
         [] rec.op = "deleteItem" -> "del_item"
         [] rec.op = "getTotalRevenue" -> "rev_read"
         [] rec.op = "getTotalProfit" -> "profit_read"
         [] rec.op = "getSalesDataByDateRange" -> "range_sold"
         [] rec.op = "getMainStatsForPeriod" -> "stats_begin"
         [] OTHER -> "op_begin")

\* catch of the executeWithRetry that wraps the operation of the public
\* DatabaseService method.
OuterCatch(p, rec, msg) ==
  LET r == rec.rOut + 1 IN
  IF ShouldRetry(r, msg)
  THEN Restart(p, [rec EXCEPT !.rOut = r, !.err = msg])
  ELSE Throw(p, [rec EXCEPT !.rOut = r, !.err = msg], msg)

\* catch of the executeWithRetry of the getInventoryItemById nested in the
\* operation: what it rethrows is caught by the outer executeWithRetry.
InnerCatch(p, rec, msg) ==
  LET r == rec.rIn + 1 IN
  IF ShouldRetry(r, msg)
  THEN Goto(p, [rec EXCEPT !.rIn = r, !.err = msg], "in_read")
  ELSE OuterCatch(p, [rec EXCEPT !.rIn = r], msg)

\* catch of the executeWithRetry of a method nested in the operation of
\* getMainStatsForPeriod, whose statement is at pc `at`.
NestedCatch(p, rec, msg, at) ==
  LET r == rec.rIn + 1 IN
  IF ShouldRetry(r, msg)
  THEN Goto(p, [rec EXCEPT !.rIn = r, !.err = msg], at)
  ELSE OuterCatch(p, [rec EXCEPT !.rIn = r], msg)

\* catch of the executeWithRetry of InventoryService.getItemById.
IsCatch(p, rec, msg) ==
  LET r == rec.rIs + 1 IN
  IF ShouldRetry(r, msg)
  THEN Goto(p, [rec EXCEPT !.rIs = r, !.err = msg], "is_read")
  ELSE Throw(p, [rec EXCEPT !.rIs = r, !.err = msg], msg)

\* ------------------------------------------ performInitialization runs

\* catch of performInitialization: the guard is reset, the promise rejects.
RunFail(r, msg) ==
  /\ runs' = [runs EXCEPT ![r] = [@ EXCEPT !.st = "rejected", !.err = msg, !.pc = "end", !.retries = 0]]
  /\ initializationPromise' = 0
  /\ isInitialized' = isInitialized

\* waitForDatabase: SELECT 1, up to MAX_RETRIES attempts, any error retried.
\* The error it ends with quotes the last one, so it is transient when that is.
RunWaitForDatabase(r) ==
  /\ r \in 1..Len(runs)
  /\ runs[r].pc = "waitForDatabase"
  /\ \E f \in Outcomes :
       /\ Fault(f)
       /\ IF f = "ok"
          THEN /\ runs' = [runs EXCEPT ![r].pc = "createItems"]
               /\ UNCHANGED <<initializationPromise, isInitialized>>
          ELSE IF runs[r].retries + 1 >= MAX_RETRIES
               THEN RunFail(r, f)
               ELSE /\ runs' = [runs EXCEPT ![r].retries = @ + 1]
                    /\ UNCHANGED <<initializationPromise, isInitialized>>
  /\ last' = NoCall
  /\ UNCHANGED <<db, proc, ncalls, timers, now>>

\* tableInfo.length > 0 && !tableSql.includes("'sold'")
NeedsTableRecreation == txTable /\ txLegacy

\* createAllTables up to CREATE TABLE IF NOT EXISTS inventory_items
\* (users and products before it hold nothing of the ledger), and the
\* SELECT sql FROM sqlite_master that decides between the migration and
\* CREATE TABLE IF NOT EXISTS stock_transactions.
RunCreateItems(r) ==
  /\ r \in 1..Len(runs)
  /\ runs[r].pc = "createItems"
  /\ \E f \in Outcomes :
       /\ Fault(f)
       /\ IF f = "ok"
          THEN /\ runs' = [runs EXCEPT ![r] =
                            IF NeedsTableRecreation
                            THEN [@ EXCEPT !.pc = "migrateBackup",
                                           !.before = {txs[k] : k \in 1..Len(txs)}]
                            ELSE [@ EXCEPT !.pc = "createTx"]]
               /\ itemsTable' = TRUE
               /\ UNCHANGED <<initializationPromise, isInitialized>>
          ELSE /\ RunFail(r, f)
               /\ UNCHANGED itemsTable
  /\ last' = NoCall
  /\ UNCHANGED <<items, itemSeq, txs, txSeq, txTable, proc, ncalls, timers, txLegacy, now>>

\* CREATE TABLE IF NOT EXISTS stock_transactions.
RunCreateTx(r) ==
  /\ r \in 1..Len(runs)
  /\ runs[r].pc = "createTx"
  /\ \E f \in Outcomes :
       /\ Fault(f)
       /\ IF f = "ok"
          THEN /\ runs' = [runs EXCEPT ![r].pc = "finish"]
               /\ txTable' = TRUE
               /\ UNCHANGED <<initializationPromise, isInitialized>>
          ELSE /\ RunFail(r, f)
               /\ UNCHANGED txTable
  /\ last' = NoCall
  /\ UNCHANGED <<items, itemSeq, txs, txSeq, itemsTable, proc, ncalls, timers, txLegacy, now>>

\* The rest of createAllTables (categories, the trigger, the ignored ALTER,
\* the default user), then isInitialized = true.
RunFinish(r) ==
  /\ r \in 1..Len(runs)
  /\ runs[r].pc = "finish"
  /\ \E f \in Outcomes :
       /\ Fault(f)
       /\ IF f = "ok"
          THEN /\ runs' = [runs EXCEPT ![r] = [@ EXCEPT !.st = "resolved", !.pc = "end"]]
               /\ isInitialized' = TRUE
               /\ UNCHANGED initializationPromise
          ELSE RunFail(r, f)
  /\ last' = NoCall
  /\ UNCHANGED <<db, proc, ncalls, timers, now>>

\* A task awaiting a run resumes when the run's promise settles.  A
\* rejection surfaces from executeWithRetry before its try block; inside
\* the nested getInventoryItemById that is inside the outer operation.
AwaitInit(p) ==
  LET rec == Locals(p) IN
  /\ rec.pc = "await_init"
  /\ runs[rec.awaiting].st # "pending"
  /\ IF runs[rec.awaiting].st = "resolved"
     THEN Goto(p, [rec EXCEPT !.awaiting = 0, !.ret = "none"], rec.ret)
     ELSE IF rec.ret = "in_read"
          THEN OuterCatch(p, rec, runs[rec.awaiting].err)
          ELSE Throw(p, rec, runs[rec.awaiting].err)
  /\ UNCHANGED <<db, isInitialized, faults, ncalls, now>>

\* ---------------------------------------------------- public calls

ItemIds == 1..2

\* An idle task takes the next call; of several idle tasks, the first.
CanStart(p) ==
  /\ proc[p].pc = "idle"
  /\ \A q \in 1..(p - 1) : proc[q].pc # "idle"
  /\ ncalls < MaxCalls

NewCall(opName) == [IdleProc EXCEPT !.op = opName]

\* InventoryService.addItem -> DatabaseService.addInventoryItem ->
\* executeWithRetry.
StartAddItem(p) ==
  /\ CanStart(p)
  /\ \E nm \in Names, c \in CostPrices, s \in SellPrices, q \in QtyArgs, m \in MinArgs :
       Enter(p, [NewCall("addItem") EXCEPT !.name = nm, !.cost = c, !.sell = s,
                                           !.n = q, !.min = m],
             "add_item")
  /\ ncalls' = ncalls + 1
  /\ UNCHANGED <<db, isInitialized, faults, now>>

\* InventoryService.updateStock: first `await this.getItemById(itemId)`.
StartUpdateStock(p) ==
  /\ CanStart(p)
  /\ \E i \in ItemIds, q \in QtyArgs :
       Enter(p, [NewCall("updateStock") EXCEPT !.id = i, !.n = q], "is_read")
  /\ ncalls' = ncalls + 1
  /\ UNCHANGED <<db, isInitialized, faults, now>>

\* InventoryService.recordSale: first `await this.getItemById(itemId)`.
StartRecordSale(p) ==
  /\ CanStart(p)
  /\ \E i \in ItemIds, q \in QtyArgs, pr \in PriceArgs :
       Enter(p, [NewCall("recordSale") EXCEPT !.id = i, !.n = q, !.price = pr],
             "is_read")
  /\ ncalls' = ncalls + 1
  /\ UNCHANGED <<db, isInitialized, faults, now>>

\* InventoryService.deleteItem -> DatabaseService.deleteInventoryItem ->
\* executeWithRetry.
StartDeleteItem(p) ==
  /\ CanStart(p)
  /\ \E i \in ItemIds :
       Enter(p, [NewCall("deleteItem") EXCEPT !.id = i], "del_item")
  /\ ncalls' = ncalls + 1
  /\ UNCHANGED <<db, isInitialized, faults, now>>

\* InventoryService.initializeDatabase -> DatabaseService.initializeDatabase
\* -> ensureInitialized.
StartInitializeDatabase(p) ==
  /\ CanStart(p)
  /\ Enter(p, NewCall("initializeDatabase"), "ret_ok")
  /\ ncalls' = ncalls + 1
  /\ UNCHANGED <<db, isInitialized, faults, now>>

\* InventoryService.resetDatabase -> DatabaseService.resetDatabase ->
\* dropAllTables -> executeWithRetry.
StartResetDatabase(p) ==
  /\ CanStart(p)
  /\ Enter(p, NewCall("resetDatabase"), "drop_tx")
  /\ ncalls' = ncalls + 1
  /\ UNCHANGED <<db, isInitialized, faults, now>>

\* ------------------------------------------------ storage statements

NewItemRow(rec) ==
  [name |-> rec.name, cost_price |-> rec.cost, selling_price |-> rec.sell,
   quantity |-> rec.n, min_stock_level |-> rec.min, total_sold |-> 0,
   created_at |-> SqlTimestamp(now)]

TxRow(itemId, type, qty, unitPrice, totalAmount, notes) ==
  [id |-> txSeq + 1, item_id |-> itemId, type |-> type, quantity |-> qty,
   unit_price |-> unitPrice, total_amount |-> totalAmount, notes |-> notes,
   created_at |-> SqlTimestamp(now)]

InsertTx(row) ==
  /\ txs' = Append(txs, row)
  /\ txSeq' = txSeq + 1

\* name TEXT NOT NULL UNIQUE: the INSERT fails when a row has the name.
NameTakenNever(nm) == FALSE
NameTaken(nm) == \E i \in DOMAIN items : items[i].name = nm

\* InventoryService.addItem after addInventoryItem returned:
\* `if (item.quantity <= item.min_stock_level) triggerLowStockNotification()`.
AddItemReturn(p, rec) ==
  Goto(p, [rec EXCEPT !.low = (rec.n <= rec.min)], "ret_ok")

\* addInventoryItem: `if (item.quantity > 0)` before the 'Initial stock' insert.
LogsInitialStockAlways(quantity) == quantity >= 0
LogsInitialStock(quantity) == quantity > 0

\* addInventoryItem: INSERT INTO inventory_items.
AddInsertItem(p) ==
  LET rec == Locals(p) IN
  /\ rec.pc = "add_item"
  /\ \E f \in Outcomes :
       /\ Fault(f)
       /\ IF f # "ok"
          THEN OuterCatch(p, rec, f) /\ UNCHANGED <<items, itemSeq>>
          ELSE IF ~itemsTable
          THEN OuterCatch(p, rec, "no such table") /\ UNCHANGED <<items, itemSeq>>
          ELSE IF NameTaken(rec.name)
          THEN OuterCatch(p, rec, "UNIQUE constraint failed") /\ UNCHANGED <<items, itemSeq>>
          ELSE /\ items' = items @@ ((itemSeq + 1) :> NewItemRow(rec))
               /\ itemSeq' = itemSeq + 1
               /\ IF LogsInitialStock(rec.n)
                  THEN Goto(p, [rec EXCEPT !.id = itemSeq + 1, !.nup = @ + 1], "add_tx")
                  ELSE AddItemReturn(p, [rec EXCEPT !.id = itemSeq + 1, !.nup = @ + 1])
  /\ UNCHANGED <<txs, txSeq, itemsTable, txTable, isInitialized, ncalls, txLegacy, now>>

\* addInventoryItem: INSERT INTO stock_transactions ... 'in', 'Initial stock'.
AddInsertTx(p) ==
  LET rec == Locals(p) IN
  /\ rec.pc = "add_tx"
  /\ \E f \in Outcomes :
       /\ Fault(f)
       /\ IF f # "ok"
          THEN OuterCatch(p, rec, f) /\ UNCHANGED <<txs, txSeq>>
          ELSE IF ~txTable
          THEN OuterCatch(p, rec, "no such table") /\ UNCHANGED <<txs, txSeq>>
          ELSE /\ InsertTx(TxRow(rec.id, "in", rec.n, None, None, "Initial stock"))
               /\ AddItemReturn(p, [rec EXCEPT !.ntx = @ + 1])
  /\ UNCHANGED <<items, itemSeq, itemsTable, txTable, isInitialized, ncalls, txLegacy, now>>

\* `currentItem.quantity < quantitySold` of both recordSale methods.
InsufficientStockLenient(item, quantitySold) == item.quantity + 1 < quantitySold
InsufficientStock(item, quantitySold) == item.quantity < quantitySold

\* InventoryService.getItemById of updateStock and recordSale: the read and
\* the checks after it, then the call of the DatabaseService method, which
\* enters executeWithRetry.
IsRead(p) ==
  LET rec == Locals(p) IN
  /\ rec.pc = "is_read"
  /\ \E f \in Outcomes :
       /\ Fault(f)
       /\ IF f # "ok"
          THEN IsCatch(p, rec, f)
          ELSE IF ~itemsTable
          THEN IsCatch(p, rec, "no such table")
          ELSE LET row == RowById(rec.id) IN
               IF row = None
               THEN Throw(p, rec, "Item not found")
               ELSE IF rec.op = "recordSale" /\ InsufficientStock(row[1], rec.n)
               THEN Throw(p, [rec EXCEPT !.cur = row], "Insufficient stock for sale")
               ELSE Enter(p, [rec EXCEPT !.cur = row], "op_begin")
  /\ UNCHANGED <<db, isInitialized, ncalls, now>>

\* The operation of updateInventoryStock / recordSale starts: it calls
\* this.getInventoryItemById, which enters its own executeWithRetry.
OpBegin(p) ==
  LET rec == Locals(p) IN
  /\ rec.pc = "op_begin"
  /\ Enter(p, rec, "in_read")
  /\ UNCHANGED <<db, isInitialized, faults, ncalls, now>>

\* The read of the nested getInventoryItemById and the checks after it.
InRead(p) ==
  LET rec == [Locals(p) EXCEPT !.att = @ + 1] IN
  /\ rec.pc = "in_read"
  /\ \E f \in Outcomes :
       /\ Fault(f)
       /\ IF f # "ok"
          THEN InnerCatch(p, rec, f)
          ELSE IF ~itemsTable
          THEN InnerCatch(p, rec, "no such table")
          ELSE LET row == RowById(rec.id) IN
               IF row = None
               THEN OuterCatch(p, rec, "Item not found")
               ELSE IF rec.op = "recordSale" /\ InsufficientStock(row[1], rec.n)
               THEN OuterCatch(p, [rec EXCEPT !.dbi = row], "Insufficient stock for sale")
               ELSE Goto(p, [rec EXCEPT !.dbi = row],
                         IF rec.op = "recordSale" THEN "sale_update" ELSE "upd_update")
  /\ UNCHANGED <<db, isInitialized, ncalls, now>>

\* InventoryService.updateStock after updateInventoryStock returned:
\* `if (newQuantity <= currentItem.min_stock_level) triggerLowStockNotification()`.
UpdateStockReturn(p, rec) ==
  Goto(p, [rec EXCEPT !.low = (rec.n <= rec.cur[1].min_stock_level)], "ret_ok")

\* updateInventoryStock: UPDATE inventory_items SET quantity = newQuantity.
SetQuantity(id, q) ==
  IF id \in DOMAIN items THEN [items EXCEPT ![id].quantity = q] ELSE items

UpdUpdate(p) ==
  LET rec == Locals(p)
      difference == rec.n - rec.dbi[1].quantity IN
  /\ rec.pc = "upd_update"
  /\ \E f \in Outcomes :
       /\ Fault(f)
       /\ IF f # "ok"
          THEN OuterCatch(p, rec, f) /\ UNCHANGED items
          ELSE IF ~itemsTable
          THEN OuterCatch(p, rec, "no such table") /\ UNCHANGED items
          ELSE /\ items' = SetQuantity(rec.id, rec.n)
               /\ IF difference # 0
                  THEN Goto(p, [rec EXCEPT !.nup = @ + 1], "upd_insert")
                  ELSE UpdateStockReturn(p, [rec EXCEPT !.nup = @ + 1])
  /\ UNCHANGED <<itemSeq, txs, txSeq, itemsTable, txTable, isInitialized, ncalls, txLegacy, now>>

\* updateInventoryStock: INSERT INTO stock_transactions of type in / out.
UpdInsert(p) ==
  LET rec == Locals(p)
      difference == rec.n - rec.dbi[1].quantity
      transactionType == IF difference > 0 THEN "in" ELSE "out" IN
  /\ rec.pc = "upd_insert"
  /\ \E f \in Outcomes :
       /\ Fault(f)
       /\ IF f # "ok"
          THEN OuterCatch(p, rec, f) /\ UNCHANGED <<txs, txSeq>>
          ELSE IF ~txTable
          THEN OuterCatch(p, rec, "no such table") /\ UNCHANGED <<txs, txSeq>>
          ELSE /\ InsertTx(TxRow(rec.id, transactionType, Abs(difference), None, None, ""))
               /\ UpdateStockReturn(p, [rec EXCEPT !.ntx = @ + 1])
  /\ UNCHANGED <<items, itemSeq, itemsTable, txTable, isInitialized, ncalls, txLegacy, now>>

\* `unitPrice || currentItem.selling_price`: undefined and 0 are both falsy.
SalePrice(unitPrice, item) ==
  IF unitPrice = None \/ unitPrice = Some(0) THEN item.selling_price ELSE unitPrice[1]

\* InventoryService.recordSale after DatabaseService.recordSale returned:
\* the sales notification, and the low-stock one when
\* currentItem.quantity - quantitySold <= currentItem.min_stock_level.
RecordSaleReturn(p, rec) ==
  Goto(p, [rec EXCEPT !.sale = TRUE,
                      !.low = (rec.cur[1].quantity - rec.n <= rec.cur[1].min_stock_level)],
       "ret_ok")

\* recordSale: UPDATE inventory_items SET quantity = ?, total_sold = ?.
SetSold(id, q, sold) ==
  IF id \in DOMAIN items
  THEN [items EXCEPT ![id].quantity = q, ![id].total_sold = sold]
  ELSE items

SaleUpdate(p) ==
  LET rec == Locals(p)
      newQuantity == rec.dbi[1].quantity - rec.n
      newTotalSold == rec.dbi[1].total_sold + rec.n IN
  /\ rec.pc = "sale_update"
  /\ \E f \in Outcomes :
       /\ Fault(f)
       /\ IF f # "ok"
          THEN OuterCatch(p, rec, f) /\ UNCHANGED items
          ELSE IF ~itemsTable
          THEN OuterCatch(p, rec, "no such table") /\ UNCHANGED items
          ELSE /\ items' = SetSold(rec.id, newQuantity, newTotalSold)
               /\ Goto(p, [rec EXCEPT !.nup = @ + 1], "sale_insert")
  /\ UNCHANGED <<itemSeq, txs, txSeq, itemsTable, txTable, isInitialized, ncalls, txLegacy, now>>

\* recordSale: INSERT INTO stock_transactions of type sold.
SaleInsert(p) ==
  LET rec == Locals(p)
      salePrice == SalePrice(rec.price, rec.dbi[1])
      totalAmount == salePrice * rec.n IN
  /\ rec.pc = "sale_insert"
  /\ \E f \in Outcomes :
       /\ Fault(f)
       /\ IF f # "ok"
          THEN OuterCatch(p, rec, f) /\ UNCHANGED <<txs, txSeq>>
          ELSE IF ~txTable
          THEN OuterCatch(p, rec, "no such table") /\ UNCHANGED <<txs, txSeq>>
          ELSE /\ InsertTx(TxRow(rec.id, "sold", rec.n, Some(salePrice),
                                 Some(totalAmount), "Sale transaction"))
               /\ RecordSaleReturn(p, [rec EXCEPT !.ntx = @ + 1])
  /\ UNCHANGED <<items, itemSeq, itemsTable, txTable, isInitialized, ncalls, txLegacy, now>>

\* DELETE FROM inventory_items WHERE id = ?.  The stock_transactions rows of
\* the item stay: SQLite acts on FOREIGN KEY ... ON DELETE CASCADE only on a
\* connection that has run PRAGMA foreign_keys = ON, and no statement of
\* the program does.  AUTOINCREMENT does not give the id out again.
DeleteRow(id) == [i \in DOMAIN items \ {id} |-> items[i]]

\* deleteInventoryItem: the DELETE; InventoryService.deleteItem returns what
\* it returns.
DelItem(p) ==
  LET rec == Locals(p) IN
  /\ rec.pc = "del_item"
  /\ \E f \in Outcomes :
       /\ Fault(f)
       /\ IF f # "ok"
          THEN OuterCatch(p, rec, f) /\ UNCHANGED items
          ELSE IF ~itemsTable
          THEN OuterCatch(p, rec, "no such table") /\ UNCHANGED items
          ELSE /\ items' = DeleteRow(rec.id)
               /\ Goto(p, [rec EXCEPT !.nup = @ + 1], "ret_ok")
  /\ UNCHANGED <<itemSeq, txs, txSeq, itemsTable, txTable, isInitialized, ncalls, txLegacy, now>>

\* dropAllTables: DROP TABLE IF EXISTS stock_transactions.
DropTx(p) ==
  LET rec == Locals(p) IN
  /\ rec.pc = "drop_tx"
  /\ \E f \in Outcomes :
       /\ Fault(f)
       /\ IF f # "ok"
          THEN OuterCatch(p, rec, f) /\ UNCHANGED <<txs, txSeq, txTable, txLegacy>>
          ELSE /\ txs' = <<>>
               /\ txSeq' = 0
               /\ txTable' = FALSE
               /\ txLegacy' = FALSE
               /\ Goto(p, [rec EXCEPT !.lost = @ \cup {txs[k].item_id : k \in 1..Len(txs)}],
                       "drop_items")
  /\ UNCHANGED <<items, itemSeq, itemsTable, isInitialized, ncalls, now>>

\* dropAllTables: DROP TABLE IF EXISTS inventory_items.
DropItems(p) ==
  LET rec == Locals(p) IN
  /\ rec.pc = "drop_items"
  /\ \E f \in Outcomes :
       /\ Fault(f)
       /\ IF f # "ok"
          THEN OuterCatch(p, rec, f) /\ UNCHANGED <<items, itemSeq, itemsTable>>
          ELSE /\ items' = <<>>
               /\ itemSeq' = 0
               /\ itemsTable' = FALSE
               /\ Goto(p, rec, "drop_rest")
  /\ UNCHANGED <<txs, txSeq, txTable, isInitialized, ncalls, txLegacy, now>>

\* dropAllTables: the drops of users, products, categories and the
\* trigger; then resetDatabase clears the guard and calls
\* initializeDatabase, all before it yields again.
DropRest(p) ==
  LET rec == Locals(p) IN
  /\ rec.pc = "drop_rest"
  /\ \E f \in Outcomes :
       /\ Fault(f)
       /\ IF f # "ok"
          THEN OuterCatch(p, rec, f) /\ UNCHANGED isInitialized
          ELSE /\ isInitialized' = FALSE
               /\ EnterWith(p, rec, "reinit", FALSE, 0)
  /\ UNCHANGED <<db, ncalls, now>>

\* InventoryService.resetDatabase after DatabaseService.resetDatabase
\* returned: `await this.initializeDatabase()`.
ResetReinit(p) ==
  LET rec == Locals(p) IN
  /\ rec.pc = "reinit"
  /\ Enter(p, rec, "ret_ok")
  /\ UNCHANGED <<db, isInitialized, faults, ncalls, now>>

\* ------------------------------------------- notification callbacks

TimerIds == 1..(2 * MaxCalls)

WithoutTimer(k) == SubSeq(timers, 1, k - 1) \o SubSeq(timers, k + 1, Len(timers))

\* The callback k returns: checkLowStockAlerts / sendSalesNotification is
\* over; note tells what it did.
TimerEnd(k, note) ==
  /\ timers' = WithoutTimer(k)
  /\ last' = [NoCall EXCEPT !.note = note]
  /\ UNCHANGED <<runs, initializationPromise>>

\* catch (error) of the callback and of checkLowStockAlerts: the error is
\* logged and goes no further.
TimerCatchRethrow(k) ==
  /\ timers' = WithoutTimer(k)
  /\ last' = [NoCall EXCEPT !.res = "notification failed", !.note = "failed"]
  /\ UNCHANGED <<runs, initializationPromise>>
TimerCatch(k) == TimerEnd(k, "failed")

\* `await this.ensureInitialized()` inside the callback k, then continue at
\* target.
TimerEnter(k, target) ==
  LET c == EnsureChoice(isInitialized, initializationPromise) IN
  /\ last' = NoCall
  /\ CASE c = "ready" ->
            /\ timers' = [timers EXCEPT ![k].pc = target]
            /\ UNCHANGED <<runs, initializationPromise>>
       [] c = "join" ->
            /\ timers' = [timers EXCEPT ![k].pc = "await_init", ![k].ret = target,
                                        ![k].awaiting = initializationPromise]
            /\ UNCHANGED <<runs, initializationPromise>>
       [] c = "start" ->
            /\ Len(runs) < MaxRuns
            /\ runs' = Append(runs, NewRun)
            /\ initializationPromise' = Len(runs) + 1
            /\ timers' = [timers EXCEPT ![k].pc = "await_init", ![k].ret = target,
                                        ![k].awaiting = Len(runs) + 1]

\* The sales callback fires: sendSalesNotification reads the settings and,
\* if sales notifications are on, stores and sends one.  It reads nothing
\* of the ledger.
TimerSale(k) ==
  /\ k \in 1..Len(timers)
  /\ timers[k].kind = "sale"
  /\ timers[k].pc = "due"
  /\ \A j \in 1..(k - 1) : timers[j].pc # "due"
  /\ \E o \in {"skipped", "sent", "failed"} :
       IF o = "failed" THEN TimerCatch(k) ELSE TimerEnd(k, o)
  /\ UNCHANGED <<db, isInitialized, proc, faults, ncalls, now>>

\* The low-stock callback fires: checkLowStockAlerts reads the settings
\* and, if low-stock alerts are on, calls inventoryService.initializeDatabase.
TimerLow(k) ==
  /\ k \in 1..Len(timers)
  /\ timers[k].kind = "low"
  /\ timers[k].pc = "due"
  /\ \A j \in 1..(k - 1) : timers[j].pc # "due"
  /\ \E enabled \in BOOLEAN :
       IF enabled THEN TimerEnter(k, "low_enter") ELSE TimerEnd(k, "skipped")
  /\ UNCHANGED <<db, isInitialized, proc, faults, ncalls, now>>

\* The run the callback awaits has settled.  A rejection is caught in
\* checkLowStockAlerts.
TimerAwaitInit(k) ==
  /\ k \in 1..Len(timers)
  /\ timers[k].pc = "await_init"
  /\ runs[timers[k].awaiting].st # "pending"
  /\ IF runs[timers[k].awaiting].st = "resolved"
     THEN /\ timers' = [timers EXCEPT ![k].pc = timers[k].ret, ![k].ret = "none",
                                      ![k].awaiting = 0]
          /\ last' = NoCall
          /\ UNCHANGED <<runs, initializationPromise>>
     ELSE TimerCatch(k)
  /\ UNCHANGED <<db, isInitialized, proc, faults, ncalls, now>>

\* inventoryService.getLowStockItems(): executeWithRetry of
\* DatabaseService.getLowStockItems starts.
TimerLowEnter(k) ==
  /\ k \in 1..Len(timers)
  /\ timers[k].pc = "low_enter"
  /\ TimerEnter(k, "low_read")
  /\ UNCHANGED <<db, isInitialized, proc, faults, ncalls, now>>

\* SELECT * FROM inventory_items WHERE quantity <= min_stock_level
LowStockItems == {i \in DOMAIN items : items[i].quantity <= items[i].min_stock_level}

\* The read of getLowStockItems, retried by executeWithRetry, and the
\* alert that checkLowStockAlerts sends when the result is not empty and
\* the last alert is at least an hour old.
TimerLowRead(k) ==
  /\ k \in 1..Len(timers)
  /\ timers[k].pc = "low_read"
  /\ \E f \in Outcomes :
       /\ Fault(f)
       /\ IF f # "ok"
          THEN IF ShouldRetry(timers[k].retries + 1, f)
               THEN /\ timers' = [timers EXCEPT ![k].retries = @ + 1]
                    /\ last' = NoCall
                    /\ UNCHANGED <<runs, initializationPromise>>
               ELSE TimerCatch(k)
          ELSE IF ~itemsTable
          THEN TimerCatch(k)
          ELSE IF LowStockItems = {}
          THEN TimerEnd(k, "nothing low")
          ELSE \E o \in {"skipped", "sent", "failed"} :
                 IF o = "failed" THEN TimerCatch(k) ELSE TimerEnd(k, o)
  /\ UNCHANGED <<db, isInitialized, proc, ncalls, now>>

TimerStep ==
  \E k \in TimerIds :
    \/ TimerSale(k)
    \/ TimerLow(k)
    \/ TimerAwaitInit(k)
    \/ TimerLowEnter(k)
    \/ TimerLowRead(k)

\* ------------------------------------- the stock_transactions migration

\* SELECT * FROM stock_transactions: the backup, in memory.
RunMigrateBackup(r) ==
  /\ r \in 1..Len(runs)
  /\ runs[r].pc = "migrateBackup"
  /\ \E f \in Outcomes :
       /\ Fault(f)
       /\ IF f # "ok"
          THEN RunFail(r, f)
          ELSE IF ~txTable
          THEN RunFail(r, "no such table")
          ELSE /\ runs' = [runs EXCEPT ![r] = [@ EXCEPT !.pc = "migrateDrop", !.rows = txs]]
               /\ UNCHANGED <<initializationPromise, isInitialized>>
  /\ last' = NoCall
  /\ UNCHANGED <<db, proc, ncalls, timers, now>>

\* DROP TABLE IF EXISTS stock_transactions
RunMigrateDrop(r) ==
  /\ r \in 1..Len(runs)
  /\ runs[r].pc = "migrateDrop"
  /\ \E f \in Outcomes :
       /\ Fault(f)
       /\ IF f = "ok"
          THEN /\ runs' = [runs EXCEPT ![r].pc = "migrateCreate"]
               /\ txs' = <<>>
               /\ txSeq' = 0
               /\ txTable' = FALSE
               /\ txLegacy' = FALSE
               /\ UNCHANGED <<initializationPromise, isInitialized>>
          ELSE /\ RunFail(r, f)
               /\ UNCHANGED <<txs, txSeq, txTable, txLegacy>>
  /\ last' = NoCall
  /\ UNCHANGED <<items, itemSeq, itemsTable, proc, ncalls, timers, now>>

\* CREATE TABLE stock_transactions (... CHECK (type IN ('in', 'out', 'sold')) ...)
RunMigrateCreate(r) ==
  /\ r \in 1..Len(runs)
  /\ runs[r].pc = "migrateCreate"
  /\ \E f \in Outcomes :
       /\ Fault(f)
       /\ IF f # "ok"
          THEN RunFail(r, f) /\ UNCHANGED txTable
          ELSE IF txTable
          THEN RunFail(r, "table stock_transactions already exists") /\ UNCHANGED txTable
          ELSE /\ runs' = [runs EXCEPT ![r] =
                            IF runs[r].rows = <<>>
                            THEN [@ EXCEPT !.pc = "finish"]
                            ELSE [@ EXCEPT !.pc = "migrateInsert", !.k = 1]]
               /\ txTable' = TRUE
               /\ UNCHANGED <<initializationPromise, isInitialized>>
  /\ last' = NoCall
  /\ UNCHANGED <<items, itemSeq, txs, txSeq, itemsTable, proc, ncalls, timers, txLegacy, now>>

\* The row INSERT INTO stock_transactions (id, item_id, type, quantity,
\* unit_price, total_amount, notes, created_at) stores for a backed-up row,
\* and the row it would store were created_at left to its default.
MigratedRowNow(t) ==
  [id |-> t.id, item_id |-> t.item_id, type |-> t.type, quantity |-> t.quantity,
   unit_price |-> t.unit_price, total_amount |-> t.total_amount, notes |-> t.notes,
   created_at |-> SqlTimestamp(now)]

MigratedRow(t) ==
  [id |-> t.id, item_id |-> t.item_id, type |-> t.type, quantity |-> t.quantity,
   unit_price |-> t.unit_price, total_amount |-> t.total_amount, notes |-> t.notes,
   created_at |-> t.created_at]

\* One turn of the loop that restores existingTransactions.  An explicit id
\* moves the AUTOINCREMENT sequence up to it.
RunMigrateInsert(r) ==
  /\ r \in 1..Len(runs)
  /\ runs[r].pc = "migrateInsert"
  /\ \E f \in Outcomes :
       /\ Fault(f)
       /\ LET t == MigratedRow(runs[r].rows[runs[r].k]) IN
          IF f # "ok"
          THEN RunFail(r, f) /\ UNCHANGED <<txs, txSeq>>
          ELSE IF ~txTable
          THEN RunFail(r, "no such table") /\ UNCHANGED <<txs, txSeq>>
          ELSE IF \E j \in 1..Len(txs) : txs[j].id = t.id
          THEN RunFail(r, "UNIQUE constraint failed") /\ UNCHANGED <<txs, txSeq>>
          ELSE /\ txs' = Append(txs, t)
               /\ txSeq' = IF t.id > txSeq THEN t.id ELSE txSeq
               /\ runs' = [runs EXCEPT ![r] =
                            IF runs[r].k = Len(runs[r].rows)
                            THEN [@ EXCEPT !.pc = "finish"]
                            ELSE [@ EXCEPT !.k = @ + 1]]
               /\ UNCHANGED <<initializationPromise, isInitialized>>
  /\ last' = NoCall
  /\ UNCHANGED <<items, itemSeq, itemsTable, txTable, proc, ncalls, timers, txLegacy, now>>

MigrateStep == \E r \in 1..MaxRuns :
  \/ RunMigrateBackup(r)
  \/ RunMigrateDrop(r)
  \/ RunMigrateCreate(r)
  \/ RunMigrateInsert(r)

\* ------------------------------------------------------- the clock

\* A second passes.
Tick ==
  /\ now < MaxTime
  /\ now' = now + 1
  /\ last' = NoCall
  /\ UNCHANGED <<db, initVar, proc, faults, ncalls, timers>>

\* ---------------------------------------------------------- queries

Instants == Epoch..MaxTime

\* The instant a CURRENT_TIMESTAMP string stands for.
InstantOf(ts) == ts[1] * SecsPerDay + ts[3]

RECURSIVE SumFn(_)
SumFn(f) ==
  IF DOMAIN f = {} THEN 0
  ELSE LET k == CHOOSE j \in DOMAIN f : TRUE IN
       f[k] + SumFn([j \in DOMAIN f \ {k} |-> f[j]])

\* SUM(...) over the selected rows: NULL when there is none.
SqlSum(f) == IF DOMAIN f = {} THEN None ELSE Some(SumFn(f))

\* `result.total || 0`: NULL and 0 both give 0.
OrZero(x) == IF x = None \/ x = Some(0) THEN 0 ELSE x[1]

\* The stock_transactions rows of type t, and those of them that
\* JOIN inventory_items ii ON st.item_id = ii.id keeps.
RowsOfType(t) == {k \in 1..Len(txs) : txs[k].type = t}
Joined(S) == {k \in S : txs[k].item_id \in DOMAIN items}

\* ... AND created_at BETWEEN ? AND ? with [startDateStr, endDateStr].
InRange(S, from, to) ==
  {k \in S : Between(txs[k].created_at, ToISOString(from), ToISOString(to))}

SumQuantity(S) == SqlSum([k \in S |-> txs[k].quantity])

\* SUM(total_amount): a NULL total_amount does not count.
SumAmountOfUnitPrice(S) ==
  SqlSum([k \in {j \in S : txs[j].unit_price # None} |-> txs[k].unit_price[1]])
SumAmount(S) ==
  SqlSum([k \in {j \in S : txs[j].total_amount # None} |-> txs[k].total_amount[1]])

\* SUM((st.unit_price - ii.cost_price) * st.quantity) over the joined rows.
SumProfit(S) ==
  SqlSum([k \in {j \in Joined(S) : txs[j].unit_price # None} |->
            (txs[k].unit_price[1] - items[txs[k].item_id].cost_price) * txs[k].quantity])

\* SUM(st.quantity * ii.cost_price) over the joined rows.
SumCostValue(S) ==
  SqlSum([k \in Joined(S) |-> txs[k].quantity * items[txs[k].item_id].cost_price])

\* SELECT SUM(cost_price * quantity) FROM inventory_items
SumStockValue == SqlSum([i \in DOMAIN items |-> items[i].cost_price * items[i].quantity])

\* startDate.getTime() <= new Date("1970-01-01").getTime()
IsAllTime(from) == from <= Epoch

\* InventoryService.getTotalRevenue -> DatabaseService.getTotalRevenue.
StartGetTotalRevenue(p) ==
  /\ CanStart(p)
  /\ Enter(p, NewCall("getTotalRevenue"), "rev_read")
  /\ ncalls' = ncalls + 1
  /\ UNCHANGED <<db, isInitialized, faults, now>>

\* InventoryService.getTotalProfit -> DatabaseService.getTotalProfit.
StartGetTotalProfit(p) ==
  /\ CanStart(p)
  /\ Enter(p, NewCall("getTotalProfit"), "profit_read")
  /\ ncalls' = ncalls + 1
  /\ UNCHANGED <<db, isInitialized, faults, now>>

\* InventoryService.getSalesDataByDateRange(startDate, endDate).
StartGetSalesDataByDateRange(p) ==
  /\ CanStart(p)
  /\ \E a \in Instants, b \in Instants :
       /\ a <= b
       /\ Enter(p, [NewCall("getSalesDataByDateRange") EXCEPT !.from = a, !.to = b],
                "range_sold")
  /\ ncalls' = ncalls + 1
  /\ UNCHANGED <<db, isInitialized, faults, now>>

\* InventoryService.getMainStatsForPeriod(startDate, endDate).
StartGetMainStatsForPeriod(p) ==
  /\ CanStart(p)
  /\ \E a \in Instants, b \in Instants :
       /\ a <= b
       /\ Enter(p, [NewCall("getMainStatsForPeriod") EXCEPT !.from = a, !.to = b],
                "stats_begin")
  /\ ncalls' = ncalls + 1
  /\ UNCHANGED <<db, isInitialized, faults, now>>

\* One SELECT of a query at pc `at`, in the operation of the method's
\* executeWithRetry: on success the value is collected and the task goes on
\* to `next`.
QueryRead(p, at, tables, value, next) ==
  LET rec == Locals(p) IN
  /\ rec.pc = at
  /\ \E f \in Outcomes :
       /\ Fault(f)
       /\ IF f # "ok"
          THEN OuterCatch(p, rec, f)
          ELSE IF ~tables
          THEN OuterCatch(p, rec, "no such table")
          ELSE Goto(p, [rec EXCEPT !.val = Append(@, value)], next)
  /\ UNCHANGED <<db, isInitialized, ncalls, now>>

\* getTotalRevenue: SELECT SUM(total_amount) ... WHERE type = 'sold'.
RevRead(p) ==
  QueryRead(p, "rev_read", txTable, OrZero(SumAmount(RowsOfType("sold"))), "ret_ok")

\* getTotalProfit: SELECT SUM((st.unit_price - ii.cost_price) * st.quantity) ...
ProfitRead(p) ==
  QueryRead(p, "profit_read", txTable /\ itemsTable,
            OrZero(SumProfit(RowsOfType("sold"))), "ret_ok")

\* getSalesDataByDateRange: the three SELECTs; the `|| 0` are applied when
\* the result is put together.
RangeSold(p) ==
  QueryRead(p, "range_sold", txTable,
            OrZero(SumQuantity(InRange(RowsOfType("sold"), proc[p].from, proc[p].to))),
            "range_rev")

RangeRev(p) ==
  QueryRead(p, "range_rev", txTable,
            OrZero(SumAmount(InRange(RowsOfType("sold"), proc[p].from, proc[p].to))),
            "range_profit")

RangeProfit(p) ==
  QueryRead(p, "range_profit", txTable /\ itemsTable,
            OrZero(SumProfit(InRange(RowsOfType("sold"), proc[p].from, proc[p].to))),
            "ret_ok")

\* The operation of getMainStatsForPeriod starts: for the "all" filter it
\* calls this.getAllInventoryItems, which enters its own executeWithRetry.
StatsBegin(p) ==
  LET rec == Locals(p) IN
  /\ rec.pc = "stats_begin"
  /\ IF IsAllTime(rec.from)
     THEN Enter(p, rec, "st_all")
     ELSE Goto(p, rec, "st_created")
  /\ UNCHANGED <<db, isInitialized, faults, ncalls, now>>

\* One SELECT of a method nested in the operation of getMainStatsForPeriod,
\* in that method's own executeWithRetry; then the next nested method is
\* entered, or the result is returned.
NestedRead(p, at, value, next) ==
  LET rec == Locals(p) IN
  /\ rec.pc = at
  /\ \E f \in Outcomes :
       /\ Fault(f)
       /\ IF f # "ok"
          THEN NestedCatch(p, rec, f, at)
          ELSE IF ~itemsTable
          THEN NestedCatch(p, rec, "no such table", at)
          ELSE LET done == [rec EXCEPT !.val = Append(@, value), !.rIn = 0] IN
               IF next = "ret_ok" THEN Goto(p, done, next) ELSE Enter(p, done, next)
  /\ UNCHANGED <<db, isInitialized, ncalls, now>>

\* getAllInventoryItems: allItems.length.
StatsAllItems(p) == NestedRead(p, "st_all", Cardinality(DOMAIN items), "st_low")

\* getLowStockItems: lowStockItems.length.
StatsLowStock(p) == NestedRead(p, "st_low", Cardinality(LowStockItems), "st_value")

\* getTotalStockValue: `result.total_value || 0`.
StatsStockValue(p) == NestedRead(p, "st_value", OrZero(SumStockValue), "ret_ok")

\* SELECT COUNT(*) FROM inventory_items WHERE created_at BETWEEN ? AND ?
ItemsCreated(from, to) ==
  Cardinality({i \in DOMAIN items :
                 Between(items[i].created_at, ToISOString(from), ToISOString(to))})

StatsCreated(p) ==
  QueryRead(p, "st_created", itemsTable, ItemsCreated(proc[p].from, proc[p].to), "st_in")

StatsIn(p) ==
  QueryRead(p, "st_in", txTable,
            OrZero(SumQuantity(InRange(RowsOfType("in"), proc[p].from, proc[p].to))),
            "st_out")

StatsOut(p) ==
  QueryRead(p, "st_out", txTable,
            OrZero(SumQuantity(InRange(RowsOfType("out"), proc[p].from, proc[p].to))),
            "st_in_value")

StatsInValue(p) ==
  QueryRead(p, "st_in_value", txTable /\ itemsTable,
            OrZero(SumCostValue(InRange(RowsOfType("in"), proc[p].from, proc[p].to))),
            "st_out_value")

StatsOutValue(p) ==
  QueryRead(p, "st_out_value", txTable /\ itemsTable,
            OrZero(SumCostValue(InRange(RowsOfType("out"), proc[p].from, proc[p].to))),
            "ret_ok")

QueryStep(p) ==
  \/ StartGetTotalRevenue(p)
  \/ StartGetTotalProfit(p)
  \/ StartGetSalesDataByDateRange(p)
  \/ StartGetMainStatsForPeriod(p)
  \/ RevRead(p)
  \/ ProfitRead(p)
  \/ RangeSold(p)
  \/ RangeRev(p)
  \/ RangeProfit(p)
  \/ StatsBegin(p)
  \/ StatsAllItems(p)
  \/ StatsLowStock(p)
  \/ StatsStockValue(p)
  \/ StatsCreated(p)
  \/ StatsIn(p)
  \/ StatsOut(p)
  \/ StatsInValue(p)
  \/ StatsOutValue(p)

\* -------------------------------------------------- specifications

RunStep == \E r \in 1..MaxRuns :
  \/ RunWaitForDatabase(r)
  \/ RunCreateItems(r)
  \/ RunCreateTx(r)
  \/ RunFinish(r)

TaskStep(p) ==
  \/ StartAddItem(p)
  \/ StartUpdateStock(p)
  \/ StartRecordSale(p)
  \/ StartDeleteItem(p)
  \/ StartInitializeDatabase(p)
  \/ StartResetDatabase(p)
  \/ AwaitInit(p)
  \/ AddInsertItem(p)
  \/ AddInsertTx(p)
  \/ IsRead(p)
  \/ OpBegin(p)
  \/ InRead(p)
  \/ UpdUpdate(p)
  \/ UpdInsert(p)
  \/ SaleUpdate(p)
  \/ SaleInsert(p)
  \/ DelItem(p)
  \/ DropTx(p)
  \/ DropItems(p)
  \/ DropRest(p)
  \/ ResetReinit(p)

\* Any number of calls in flight.
Next == RunStep \/ \E p \in Procs : TaskStep(p)

Spec == Init /\ [][Next]_vars

\* One call at a time: every call runs to its end before the next starts.
NextSeq == RunStep \/ TaskStep(1)

SpecSeq == InitSeq /\ [][NextSeq]_vars

\* One call at a time, and the callbacks the calls have scheduled.
NotifyFaults == 1

InitNotify == Boot /\ faults = NotifyFaults

NextNotify == NextSeq \/ TimerStep

SpecNotify == InitNotify /\ [][NextNotify]_vars

\* One call at a time, the queries among them, while the clock runs.
StatsFaults == 1

InitStats == Boot /\ faults = StatsFaults

NextStats == NextSeq \/ QueryStep(1) \/ Tick

SpecStats == InitStats /\ [][NextStats]_vars

\* The app starts on the file a version before sales left: Widget, and a
\* stock_transactions table whose CHECK allows 'in' and 'out' only, holding
\* the rows of that version (one of them, id 2, deleted since).
MigrateFaults == 1

LegacyTxs ==
  << [id |-> 1, item_id |-> 1, type |-> "in", quantity |-> InitialStock + 1,
      unit_price |-> None, total_amount |-> None, notes |-> "Initial stock",
      created_at |-> SqlTimestamp(0)],
     [id |-> 3, item_id |-> 1, type |-> "out", quantity |-> 1,
      unit_price |-> None, total_amount |-> None, notes |-> "Stock adjustment",
      created_at |-> SqlTimestamp(1)] >>

InitMigrate ==
  /\ items = StockedItems
  /\ itemSeq = 1
  /\ txs = LegacyTxs
  /\ txSeq = 3
  /\ itemsTable = TRUE
  /\ txTable = TRUE
  /\ txLegacy = TRUE
  /\ isInitialized = FALSE
  /\ initializationPromise = 0
  /\ runs = <<>>
  /\ proc = [p \in Procs |-> IdleProc]
  /\ last = NoCall
  /\ ncalls = 0
  /\ timers = <<>>
  /\ now = SecsPerDay
  /\ faults = MigrateFaults

NextMigrate == NextSeq \/ MigrateStep

SpecMigrate == InitMigrate /\ [][NextMigrate]_vars

\* ================================================================ claims

StatementPcs == {"add_item", "add_tx", "is_read", "in_read", "upd_update",
                 "upd_insert", "sale_update", "sale_insert", "del_item", "drop_tx",
                 "drop_items", "drop_rest"}

Idle == \A p \in Procs : proc[p].pc = "idle"

\* The call that ended in the last step, and the row its first read found.
Call == last.call
Found == last.call.cur[1]
Stored == items[last.call.id]
LastTx == txs[Len(txs)]

\* Sum of the 'in' quantities minus the 'out' and 'sold' quantities of item i.
RECURSIVE SignedSum(_, _)
SignedSum(s, i) ==
  IF s = <<>> THEN 0
  ELSE (IF Head(s).item_id # i THEN 0
        ELSE IF Head(s).type = "in" THEN Head(s).quantity
        ELSE 0 - Head(s).quantity)
       + SignedSum(Tail(s), i)

\* C1: with no call in flight, every item's stored quantity is the sum of
\* its 'in' transactions minus the sum of its 'out' and 'sold' ones. Stated
\* for the items whose stored quantity is a legal one (not negative), so
\* that a violation does not rest on a call with an invalid argument.
C1_QuantityIsLedgerSum ==
  Idle => \A i \in DOMAIN items :
            items[i].quantity >= 0 => items[i].quantity = SignedSum(txs, i)

\* C2: when recordSale of a quantity in stock throws because its INSERT of
\* the 'sold' transaction failed, the item's quantity and total_sold are
\* those the call found.
C2_SaleAllOrNothing ==
  (/\ Call.op = "recordSale" /\ Call.pc = "sale_insert" /\ last.res # "ok"
   /\ Call.n > 0 /\ Call.n <= Found.quantity)
    => /\ Call.id \in DOMAIN items
       /\ Stored.quantity = Found.quantity
       /\ Stored.total_sold = Found.total_sold

\* C3: a recordSale whose quantity exceeds the quantity its read of the item
\* found throws the insufficient-stock error, has written no item row and
\* no transaction, and has scheduled no sales or low-stock notification.
C3_OversellRejected ==
  (Call.op = "recordSale" /\ Call.cur # None /\ Call.n > Found.quantity)
    => /\ last.res = "Insufficient stock for sale"
       /\ Call.nup = 0
       /\ Call.ntx = 0
       /\ ~Call.sale
       /\ ~Call.low

C3_Witness ==
  /\ Call.op = "recordSale"
  /\ Call.cur # None
  /\ Call.n > Found.quantity
  /\ Found.quantity > 0
  /\ last.res = "Insufficient stock for sale"

\* C4: at most one performInitialization run is in progress at any time.
PendingRuns == {r \in 1..Len(runs) : runs[r].st = "pending"}

C4_SingleFlight == Cardinality(PendingRuns) <= 1

\* C5: the step in which a performInitialization run fails leaves
\* isInitialized false and the guard (initializationPromise) null.
C5_FailedInitNotReady ==
  [][\A r \in 1..Len(runs) :
       (runs[r].st = "pending" /\ runs'[r].st = "rejected")
         => (isInitialized' = FALSE /\ initializationPromise' = 0)]_vars

\* C6: an executeWithRetry never makes a fourth attempt; it re-runs its
\* operation only after a transient failure; and a transient error comes
\* out of it only as the failure of its third attempt.
C6_RetryBound ==
  /\ \A p \in Procs :
       /\ proc[p].rIs < MAX_RETRIES
       /\ proc[p].rOut < MAX_RETRIES
       /\ proc[p].rIn < MAX_RETRIES
       /\ proc[p].err # "none" => IsTransient(proc[p].err)
  /\ (Call.pc \in StatementPcs /\ IsTransient(last.res))
       => IF Call.pc = "is_read" THEN Call.rIs = MAX_RETRIES
                                 ELSE Call.rOut = MAX_RETRIES
  /\ (Call.pc \in StatementPcs /\ last.res = "disk I/O error")
       => Call.err = "disk I/O error"

C6_Witness ==
  /\ Call.pc \in StatementPcs
  /\ last.res = "has been rejected"
  /\ Call.rOut = MAX_RETRIES

\* What the call leaves when it succeeds on its first attempt, given the
\* row it found: the stored quantity and total_sold and the number of
\* transactions inserted.
FirstAttemptEffect ==
  CASE Call.op = "recordSale" ->
         /\ Stored.quantity = Found.quantity - Call.n
         /\ Stored.total_sold = Found.total_sold + Call.n
         /\ Call.ntx = 1
    [] Call.op = "updateStock" ->
         /\ Stored.quantity = Call.n
         /\ Call.ntx = (IF Call.n # Found.quantity THEN 1 ELSE 0)
    [] Call.op = "addItem" ->
         /\ Stored.quantity = Call.n
         /\ Call.ntx = (IF Call.n > 0 THEN 1 ELSE 0)
    [] OTHER -> TRUE

\* C7: a call with valid arguments that succeeds after executeWithRetry
\* re-ran its operation leaves what the same call leaves when it succeeds
\* on the first attempt.
C7_RetryIdempotent ==
  (/\ last.res = "ok" /\ Call.rOut > 0
   /\ Call.n >= 0 /\ (Call.op = "recordSale" => Call.n > 0))
    => FirstAttemptEffect

\* C8: a successful recordSale(id, q, p) with 0 < q <= quantity lowers the
\* quantity by q, raises total_sold by q and appends one 'sold' transaction
\* of quantity q, unit_price p (the selling price when p is omitted) and
\* total_amount p * q.
C8_SaleEffect ==
  (last.res = "ok" /\ Call.op = "recordSale" /\ Call.n > 0 /\ Call.n <= Found.quantity)
    => LET price == IF Call.price = None THEN Found.selling_price ELSE Call.price[1] IN
       /\ Stored.quantity = Found.quantity - Call.n
       /\ Stored.total_sold = Found.total_sold + Call.n
       /\ Call.ntx = 1
       /\ LastTx.type = "sold"
       /\ LastTx.item_id = Call.id
       /\ LastTx.quantity = Call.n
       /\ LastTx.unit_price = Some(price)
       /\ LastTx.total_amount = Some(price * Call.n)

\* C9: a successful updateStock(id, n), n >= 0, on an item of quantity c
\* sets the quantity to n and appends one 'in' (n > c) or 'out' (n < c)
\* transaction of quantity |n - c|, and none when n = c.
C9_UpdateStockEffect ==
  (last.res = "ok" /\ Call.op = "updateStock" /\ Call.n >= 0)
    => /\ Stored.quantity = Call.n
       /\ IF Call.n = Found.quantity
          THEN Call.ntx = 0
          ELSE /\ Call.ntx = 1
               /\ LastTx.item_id = Call.id
               /\ LastTx.type = (IF Call.n > Found.quantity THEN "in" ELSE "out")
               /\ LastTx.quantity = Abs(Call.n - Found.quantity)

\* C10: updateStock(id, n) with n < 0 fails, and writes neither the item
\* nor a transaction.
C10_NegativeQuantityRejected ==
  /\ \A p \in Procs :
       (proc[p].op = "updateStock" /\ proc[p].n < 0)
         => (proc[p].nup = 0 /\ proc[p].ntx = 0)
  /\ (Call.op = "updateStock" /\ Call.n < 0)
       => (last.res # "ok" /\ Call.nup = 0 /\ Call.ntx = 0)

\* C11: recordSale(id, q) with q <= 0 fails, and writes neither the item
\* nor a transaction, at no point of the call.
C11_NonPositiveSaleRejected ==
  /\ \A p \in Procs :
       (proc[p].op = "recordSale" /\ proc[p].n <= 0)
         => (proc[p].nup = 0 /\ proc[p].ntx = 0)
  /\ (Call.op = "recordSale" /\ Call.n <= 0)
       => (last.res # "ok" /\ Call.nup = 0 /\ Call.ntx = 0)

\* C12: a successful addItem has created one item, stored with the given
\* fields and total_sold 0, and has appended one 'in' transaction of the
\* given quantity with note 'Initial stock' when that quantity is > 0, and
\* no transaction otherwise.
C12_AddItemEffect ==
  (last.res = "ok" /\ Call.op = "addItem")
    => /\ Call.id \in DOMAIN items
       /\ Stored = NewItemRow(Call)
       /\ Stored.total_sold = 0
       /\ Call.nup = 1
       /\ IF Call.n > 0
          THEN /\ Call.ntx = 1
               /\ LastTx.item_id = Call.id
               /\ LastTx.type = "in"
               /\ LastTx.quantity = Call.n
               /\ LastTx.notes = "Initial stock"
          ELSE Call.ntx = 0

C12_Witness ==
  /\ last.res = "ok"
  /\ Call.op = "addItem"
  /\ Call.n > 0
  /\ Call.ntx = 1
  /\ LastTx.notes = "Initial stock"

\* No two inventory_items rows have the same name.
NamesDistinct ==
  \A i, j \in DOMAIN items : items[i].name = items[j].name => i = j

\* C13: item names stay pairwise distinct; and when addInventoryItem, having
\* inserted nothing yet, executes its INSERT for a name an existing item
\* has, the call ends with the uniqueness error in that step, and neither
\* an item nor a transaction is added.
C13_DuplicateNameRejected ==
  /\ []NamesDistinct
  /\ [][\A p \in Procs :
          (/\ proc[p].pc = "add_item" /\ proc'[p] # proc[p] /\ faults' = faults
           /\ itemsTable /\ proc[p].nup = 0
           /\ \E i \in DOMAIN items : items[i].name = proc[p].name)
            => /\ last'.by = p
               /\ last'.res = "UNIQUE constraint failed"
               /\ last'.call.nup = 0
               /\ last'.call.ntx = 0
               /\ items' = items
               /\ txs' = txs]_vars

C13_Witness ==
  /\ Call.op = "addItem"
  /\ last.res = "UNIQUE constraint failed"
  /\ Call.nup = 0
  /\ \E i \in DOMAIN items : items[i].name = Call.name

\* C14: addItem with a negative argument (of those the callers pass here,
\* the initial quantity) fails, and creates neither an item nor a
\* transaction, at no point of the call.
C14_NegativeItemRejected ==
  /\ \A p \in Procs :
       (proc[p].op = "addItem"
        /\ (proc[p].n < 0 \/ proc[p].cost < 0 \/ proc[p].sell < 0 \/ proc[p].min < 0))
         => (proc[p].nup = 0 /\ proc[p].ntx = 0)
  /\ (Call.op = "addItem"
      /\ (Call.n < 0 \/ Call.cost < 0 \/ Call.sell < 0 \/ Call.min < 0))
       => (last.res # "ok" /\ Call.nup = 0 /\ Call.ntx = 0)

\* C15: an updateStock or recordSale on an id that no item has fails, having
\* written no item and no transaction; when its lookup of the item was
\* executed, it fails with 'Item not found'.
C15_UnknownItemRejected ==
  (Call.op \in {"updateStock", "recordSale"} /\ Call.id \notin DOMAIN items)
    => /\ last.res # "ok"
       /\ Call.nup = 0
       /\ Call.ntx = 0
       /\ (Call.pc = "is_read" /\ Call.err = "none") => last.res = "Item not found"

C15_Witness ==
  /\ Call.op \in {"updateStock", "recordSale"}
  /\ Call.id \notin DOMAIN items
  /\ items # <<>>
  /\ last.res = "Item not found"

\* C16: after a successful deleteItem(id) no item and no transaction has
\* that id; and every transaction's item_id is the id of an item.
C16_DeleteCascades ==
  /\ (last.res = "ok" /\ Call.op = "deleteItem")
       => /\ Call.id \notin DOMAIN items
          /\ \A k \in 1..Len(txs) : txs[k].item_id # Call.id
  /\ \A k \in 1..Len(txs) : txs[k].item_id \in DOMAIN items

\* C17: when an addItem, updateStock or recordSale call returns successfully
\* and the item's stored quantity is then <= its min_stock_level, a
\* low-stock check has been scheduled: by that call, as the claim has it,
\* or at least by a call that returned before it.  Stated for behaviours
\* in which no storage statement has failed, no quantity argument is
\* invalid and no other call is still in flight, so that a violation rests
\* on the interleaving alone and no later call can make up for it.
C17_LowStockScheduled ==
  (/\ last.res = "ok"
   /\ Call.op \in {"addItem", "updateStock", "recordSale"}
   /\ Call.id \in DOMAIN items
   /\ Stored.quantity <= Stored.min_stock_level
   /\ faults = ConcFaults
   /\ Idle
   /\ Call.n >= 0 /\ (Call.op = "recordSale" => Call.n > 0)
   /\ \A i \in DOMAIN items : items[i].quantity >= 0 /\ items[i].total_sold >= 0)
    => \/ Call.low
       \/ \E k \in 1..Len(timers) : timers[k].kind = "low"

\* C18: the outcome of a ledger call does not depend on notification
\* dispatch.  The step in which addItem, updateStock or recordSale returns
\* or throws leaves every callback it scheduled still to run (pc "due") and
\* touches none that was there; and every step of a low-stock or sales
\* callback, a failing one included, leaves the stored items and
\* transactions and the tasks of the calls in flight as they are and hands
\* no result or error to a caller.
C18_NotificationIndependent ==
  [][/\ (last'.by # 0)
          => /\ Len(timers') >= Len(timers)
             /\ SubSeq(timers', 1, Len(timers)) = timers
             /\ \A k \in (Len(timers) + 1)..Len(timers') : timers'[k] = NewTimer(timers'[k].kind)
     /\ (timers' # timers /\ last'.by = 0)
          => /\ items' = items
             /\ txs' = txs
             /\ itemsTable' = itemsTable
             /\ txTable' = txTable
             /\ proc' = proc
             /\ last'.res = "none"]_vars

\* A notification callback has failed after a sale was recorded.
C18_Witness ==
  /\ last.note = "failed"
  /\ last.res = "none"
  /\ \E i \in DOMAIN items : items[i].total_sold > 0

\* C19: in every reachable state every item's quantity is a non-negative
\* integer.
C19_QuantityNonNegative ==
  \A i \in DOMAIN items : items[i].quantity >= 0

\* C20: an item's total_sold starts at 0 and never decreases while the item
\* exists: no step of an addItem, updateStock or recordSale call lowers it.
\* Stated for steps taken while every sale in flight has a positive
\* quantity, so that a violation does not rest on a negative argument.
C20_TotalSoldMonotonic ==
  [][(\A p \in Procs : proc[p].op = "recordSale" => proc[p].n > 0)
       => /\ \A i \in DOMAIN items' \ DOMAIN items : items'[i].total_sold = 0
          /\ \A i \in DOMAIN items \cap DOMAIN items' :
               items'[i].total_sold >= items[i].total_sold]_vars

\* C21: every stored transaction has quantity > 0 and a type among in, out
\* and sold, and carries a unit price and a total amount exactly when its
\* type is sold.
C21_TransactionShape ==
  \A k \in 1..Len(txs) :
    /\ txs[k].quantity > 0
    /\ txs[k].type \in {"in", "out", "sold"}
    /\ (txs[k].unit_price # None) <=> (txs[k].type = "sold")
    /\ (txs[k].total_amount # None) <=> (txs[k].type = "sold")

\* The transactions stored, as a set.
TxRows == {txs[k] : k \in 1..Len(txs)}

\* C22: the transaction log is append-only.  A successful addItem with
\* quantity > 0, updateStock that changes the quantity, or recordSale has
\* added exactly one transaction (stated for calls whose operation ran
\* once); no step modifies a stored transaction; and a transaction
\* disappears only with its item: in the step that removes it the item is
\* gone, or the resetDatabase that dropped it is still in flight and, when
\* that call ends, the items whose transactions it dropped are gone.
C22_AppendOnly ==
  /\ [](/\ (/\ last.res = "ok"
            /\ Call.rOut = 0
            /\ \/ Call.op = "addItem" /\ Call.n > 0
               \/ Call.op = "updateStock" /\ Call.n # Call.cur[1].quantity
               \/ Call.op = "recordSale")
              => Call.ntx = 1
        /\ (last.by # 0) => (Call.lost \cap DOMAIN items = {}))
  /\ [][/\ \A r \in TxRows : \A q \in TxRows' : q.id = r.id => q = r
        /\ \A r \in TxRows \ TxRows' :
             \/ r.item_id \notin DOMAIN items'
             \/ \E p \in Procs : proc'[p].op = "resetDatabase"]_vars

\* C25: the 'sold' transaction of a successful recordSale carries the unit
\* price the caller passed whenever one was passed, 0 included, and the
\* item's selling price only when the argument was omitted.
C25_UnitPriceRecorded ==
  (last.res = "ok" /\ Call.op = "recordSale" /\ Call.n > 0 /\ Call.ntx = 1)
    => LastTx.unit_price =
         (IF Call.price = None THEN Some(Call.dbi[1].selling_price) ELSE Call.price)

\* Sum of the quantities of the transactions of item i that have type t.
RECURSIVE TypeSum(_, _, _)
TypeSum(s, i, t) ==
  IF s = <<>> THEN 0
  ELSE (IF Head(s).item_id = i /\ Head(s).type = t THEN Head(s).quantity ELSE 0)
       + TypeSum(Tail(s), i, t)

\* C30: no update is lost between recordSale calls in flight together.
\* When every call so far was a recordSale of a positive quantity that
\* succeeded (each has logged its 'sold' transaction), none is in flight
\* any more and no storage statement has failed, the outcome is that of
\* the calls run one after the other: no more was sold of an item than had
\* come in, its total_sold is the sum of its sales and its quantity is what
\* came in minus what was sold.
C30_NoLostUpdate ==
  (/\ Idle
   /\ faults = ConcFaults
   /\ \A k \in 1..Len(txs) : txs[k].quantity > 0
   /\ Cardinality({k \in 1..Len(txs) : txs[k].type = "sold"}) = ncalls)
    => \A i \in DOMAIN items :
         /\ TypeSum(txs, i, "sold") <= TypeSum(txs, i, "in")
         /\ items[i].total_sold = TypeSum(txs, i, "sold")
         /\ items[i].quantity = TypeSum(txs, i, "in") - TypeSum(txs, i, "sold")

\* C29: within one updateStock or recordSale call the read of the nested
\* getInventoryItemById is attempted at most MAX_RETRIES times.
C29_AttemptCapPerStatement ==
  /\ \A p \in Procs : proc[p].att <= MAX_RETRIES
  /\ Call.att <= MAX_RETRIES

\* C24: after any sequence of ledger calls, getTotalRevenue returns the sum
\* of total_amount over all 'sold' transactions, and getTotalProfit the sum
\* over 'sold' transactions of (unit_price - the item's current cost_price)
\* * quantity.
LedgerRevenue == SumFn([k \in RowsOfType("sold") |-> txs[k].total_amount[1]])

LedgerProfit ==
  SumFn([k \in RowsOfType("sold") |->
           (txs[k].unit_price[1] - items[txs[k].item_id].cost_price) * txs[k].quantity])

SoldWithin(from, to) ==
  {k \in RowsOfType("sold") :
     /\ txs[k].quantity > 0
     /\ from <= InstantOf(txs[k].created_at)
     /\ InstantOf(txs[k].created_at) <= to}

C26_RangeInclusive ==
  (/\ last.res = "ok"
   /\ Call.op = "getSalesDataByDateRange"
   /\ \A k \in RowsOfType("sold") : txs[k].quantity > 0)
  => Call.val[1] = SumFn([k \in SoldWithin(Call.from, Call.to) |-> txs[k].quantity])

\* C23: getMainStatsForPeriod(start, end) returns the current totals (item
\* count, count of items with quantity <= min_stock_level, sum of
\* cost_price * quantity) when start is at or before 1970-01-01, and
\* otherwise the flows of the range: the items created in it, the 'in'
\* quantities minus the 'out' quantities, and the 'in' quantity * cost_price
\* minus the 'out' quantity * cost_price.
Within(ts, from, to) == from <= InstantOf(ts) /\ InstantOf(ts) <= to

FlowRows(t, from, to) == {k \in RowsOfType(t) : Within(txs[k].created_at, from, to)}

FlowQuantity(t, from, to) == SumFn([k \in FlowRows(t, from, to) |-> txs[k].quantity])

FlowValue(t, from, to) ==
  SumFn([k \in Joined(FlowRows(t, from, to)) |->
           txs[k].quantity * items[txs[k].item_id].cost_price])

CurrentTotals ==
  <<Cardinality(DOMAIN items),
    Cardinality({i \in DOMAIN items : items[i].quantity <= items[i].min_stock_level}),
    SumFn([i \in DOMAIN items |-> items[i].cost_price * items[i].quantity])>>

C23_AllTimeTotals ==
  (last.res = "ok" /\ Call.op = "getMainStatsForPeriod" /\ Call.from <= Epoch)
  => Call.val = CurrentTotals

C23_MainStats ==
  (last.res = "ok" /\ Call.op = "getMainStatsForPeriod")
  => IF Call.from <= Epoch
     THEN Call.val = CurrentTotals
     ELSE /\ Call.val[1] =
               Cardinality({i \in DOMAIN items :
                              Within(items[i].created_at, Call.from, Call.to)})
          /\ Call.val[2] - Call.val[3] =
               FlowQuantity("in", Call.from, Call.to) - FlowQuantity("out", Call.from, Call.to)
          /\ Call.val[4] - Call.val[5] =
               FlowValue("in", Call.from, Call.to) - FlowValue("out", Call.from, Call.to)

\* C27: when initialization finds a stock_transactions table whose
\* definition lacks 'sold' and the migration completes, the recreated table
\* holds exactly the rows that existed before, each with the same id,
\* item_id, type, quantity, unit_price, total_amount, notes and created_at,
\* and it accepts the type 'sold'.
MigrationCompletes(r) ==
  /\ r \in 1..Len(runs)
  /\ runs[r].pc \in {"migrateCreate", "migrateInsert"}
  /\ runs'[r].pc = "finish"

C27_MigrationPreservesRows ==
  [][\A r \in 1..MaxRuns :
       MigrationCompletes(r) => (txs' = LegacyTxs /\ txTable' /\ ~txLegacy')]_vars

\* After a completed migration the table holds the rows of before, and a
\* sale was recorded into it.
C27_Witness ==
  /\ \E r \in 1..Len(runs) : runs[r].st = "resolved" /\ runs[r].rows = LegacyTxs
  /\ Len(txs) = Len(LegacyTxs) + 1
  /\ SubSeq(txs, 1, Len(LegacyTxs)) = LegacyTxs
  /\ LastTx.type = "sold"
  /\ last.res = "ok"

\* C28: the migration is all-or-nothing: if a step of it fails,
\* initialization fails with that error, the retry wrapper does not run the
\* migration again, and no row the table held is lost, neither at that point
\* nor after a later initialization.
Settles(r) ==
  /\ r \in 1..Len(runs)
  /\ runs[r].st = "pending"
  /\ runs'[r].st # "pending"

C28_MigrationAllOrNothing ==
  [][\A r \in 1..MaxRuns :
       Settles(r) =>
         /\ runs[r].before \subseteq TxRows'
         /\ (r > 1 /\ runs[r - 1].st = "rejected") => runs[r - 1].before \subseteq TxRows']_vars

====
